---- MODULE Spec2Model ----
(***************************************************************************)
(* runSequentialPromises (ui/src/utils/run-sequential-promises.js).        *)
(*                                                                         *)
(* The job list, threadsNumber and abortOnFail are the arguments of one    *)
(* call.  Init is the state after lines 29-32 (the closure variables),     *)
(* Run is the synchronous rest of the call (lines 34-74), Settle is the    *)
(* .catch/.then chain of one invoked job (lines 44-67), and JoinResolve /  *)
(* JoinReject are the settlement of Promise.all(threads).then(...).        *)
(*                                                                         *)
(* JavaScript values are records tagged by t: undefined, null, an opaque   *)
(* value made by a job, or a plain object o (a record of its fields).      *)
(* Job indices are 0-based as in the source; position i of an array is     *)
(* element i + 1 of the sequence that models it.                           *)
(***************************************************************************)
EXTENDS Integers, Sequences, FiniteSets, TLC

MaxJobs == 3

MaxThreads == 3

VARIABLES promiseList, threadsNumber, abortOnFail, jobIndex, hasAborted, resultList, lane, calls, outcome

vars == <<promiseList, threadsNumber, abortOnFail, jobIndex, hasAborted, resultList, lane, calls, outcome>>

(* ------------------------------ values -------------------------------- *)

Undef == [t |-> "undefined"]

Null == [t |-> "null"]

Obj(o) == [t |-> "object", o |-> o]

\* the value job i resolves with, when it is not one of the special shapes
Data(i) == [t |-> "data", job |-> i]

\* the error job i rejects with, when it rejects with a value
Err(i) == [t |-> "error", job |-> i]

TypeError == [t |-> "TypeError"]

\* property read v.f on a value that is neither null nor undefined
Get(v, f) == IF v.t = "object" /\ f \in DOMAIN v.o THEN v.o[f] ELSE Undef

(* ------------------------------- jobs --------------------------------- *)

\* what a job's promise does: resolve with a value of some shape, or reject
JobKinds == {"ok", "okNull", "okUndefined", "okErrorField", "fail", "failUndefined"}

Rejects(kind) == kind \in {"fail", "failUndefined"}

\* the value the promise of job i settles with
SettledValue(kind, i) == CASE kind = "ok" -> Data(i) [] kind = "okNull" -> Null [] kind = "okUndefined" -> Undef [] kind = "okErrorField" -> Obj([error |-> Data(i)]) [] kind = "fail" -> Err(i) [] kind = "failUndefined" -> Undef

totalJobs == Len(promiseList)

JobIndices == 0 .. (totalJobs - 1)

(* ---------------------- pieces of runNextPromise ---------------------- *)

\* a cursor that advances by two on each claim
nextJobIndex_skip(j) == j + 2

\* const currentJobIndex = ++jobIndex
nextJobIndex(j) == j + 1

\* a bound test that lets the index totalJobs through
claimStops_gt(aborted, cur, total) == aborted = TRUE \/ cur > total

\* if (hasAborted === true || currentJobIndex >= totalJobs)
claimStops(aborted, cur, total) == aborted = TRUE \/ cur >= total

\* .catch(err => ({ promiseIndex: currentJobIndex, error: err }))
catchWrap(idx, err) == Obj([promiseIndex |-> idx, error |-> err])

\* result !== void 0 && result !== null && result.error !== void 0
isErrorResult(result) == result # Undef /\ result # Null /\ Get(result, "error") # Undef

\* a policy test that ignores the option
abortsRun_always(flag) == TRUE

\* if (abortOnFail === true)
abortsRun(flag) == flag = TRUE

\* { promiseIndex: currentJobIndex, data: result }
successSlot(idx, result) == Obj([promiseIndex |-> idx, data |-> result])

\* { ...result, resultList: [ ...resultList ] }
rejectionOf(result, list) == Obj([f \in (DOMAIN result.o) \cup {"resultList"} |-> IF f = "resultList" THEN list ELSE result.o[f]])

\* a lane whose resolve / reject is never called
settle_never(p, st, v) == p

\* resolve() / reject(v) of a lane's promise: only a pending promise settles
settle(p, st, v) == IF p.state = "pending" THEN [state |-> st, value |-> v] ELSE p

\* a write that lands in a copy of the list and is lost
writeSlot_lost(list, idx, v) == list

\* a write that always lands in the first slot
writeSlot_first(list, idx, v) == [list EXCEPT ![1] = v]

\* resultList[ idx ] = v
writeSlot(list, idx, v) == [list EXCEPT ![idx + 1] = v]

(* ------------------------------ threads ------------------------------- *)

\* a lane of its own for every element of threads
threadLane_each(t) == t

\* Array(threadsNumber).fill(getPromiseThread()): the argument is evaluated
\* once, so every element of threads is the promise of the same lane
threadLane(t) == 1

threads == [t \in 1 .. threadsNumber |-> threadLane(t)]

\* one lane more than threadsNumber is started
Lanes_extra == 1 .. (threadsNumber + 1)

Lanes == {threadLane(t) : t \in 1 .. threadsNumber}

(* --------------------------- runNextPromise --------------------------- *)

\* One call of runNextPromise by lane l on the shared state s.  inExecutor
\* tells the first call (inside new Promise(...), where a throw rejects the
\* lane's promise) from a call made by the .then callback (where a throw
\* only rejects the unobserved chained promise).
runNextPromise(s, l, inExecutor) ==
  LET cur == nextJobIndex(s.jobIndex)
      s1 == [s EXCEPT !.jobIndex = cur]
  IN  IF claimStops(s.hasAborted, cur, Len(s.promiseList))
      THEN [s1 EXCEPT !.lane[l].pc = "done", !.lane[l].promise = settle(@, "fulfilled", Undef)]
      ELSE IF cur \notin 0 .. (Len(s.promiseList) - 1)
      THEN IF inExecutor
           THEN [s1 EXCEPT !.lane[l].pc = "done", !.lane[l].promise = settle(@, "rejected", TypeError)]
           ELSE [s1 EXCEPT !.lane[l].pc = "threw"]
      ELSE [s1 EXCEPT !.calls = Append(@, [index |-> cur, arg |-> s.resultList]),
                      !.lane[l].pc = "running",
                      !.lane[l].idx = cur]

\* the shared state as one record, for runNextPromise
Shared == [promiseList |-> promiseList, jobIndex |-> jobIndex, hasAborted |-> hasAborted, resultList |-> resultList, lane |-> lane, calls |-> calls]

\* getPromiseThread() for each lane in turn: each executor runs
\* runNextPromise synchronously
RECURSIVE startLanes(_, _)
startLanes(s, todo) ==
  IF todo = {} THEN s
  ELSE LET l == CHOOSE x \in todo : \A y \in todo : x <= y
       IN  startLanes(runNextPromise(s, l, TRUE), todo \ {l})

(* ------------------------------- state -------------------------------- *)

NewLane == [pc |-> "new", idx |-> -1, promise |-> [state |-> "pending", value |-> Undef]]

Init ==
  /\ promiseList \in UNION {[1 .. n -> JobKinds] : n \in 0 .. MaxJobs}
  /\ threadsNumber \in 1 .. MaxThreads
  /\ abortOnFail \in BOOLEAN
  /\ jobIndex = -1
  /\ hasAborted = FALSE
  /\ resultList = [i \in 1 .. Len(promiseList) |-> Null]
  /\ lane = [l \in Lanes |-> NewLane]
  /\ calls = <<>>
  /\ outcome = [state |-> "notcreated", value |-> Undef]

\* lines 34-74: create the lanes, each running runNextPromise once, and
\* return Promise.all(threads).then(() => resultList)
Run ==
  /\ outcome.state = "notcreated"
  /\ LET s == startLanes(Shared, Lanes)
     IN  /\ jobIndex' = s.jobIndex
         /\ resultList' = s.resultList
         /\ lane' = s.lane
         /\ calls' = s.calls
  /\ outcome' = [state |-> "pending", value |-> Undef]
  /\ UNCHANGED <<promiseList, threadsNumber, abortOnFail, hasAborted>>

\* the .then callback without the early exit after reject(): the lane that
\* set the flag goes on to runNextPromise
Settle_noReturn(l) ==
  /\ lane[l].pc = "running"
  /\ LET idx == lane[l].idx
         kind == promiseList[idx + 1]
         result == IF Rejects(kind) THEN catchWrap(idx, SettledValue(kind, idx)) ELSE SettledValue(kind, idx)
     IN  IF hasAborted = TRUE
         THEN /\ lane' = [lane EXCEPT ![l].pc = "done", ![l].promise = settle(@, "fulfilled", Undef)]
              /\ UNCHANGED <<jobIndex, hasAborted, resultList, calls>>
         ELSE LET failed == isErrorResult(result)
                  aborts == failed /\ abortsRun(abortOnFail)
                  written == writeSlot(resultList, idx, IF failed THEN result ELSE successSlot(idx, result))
                  rejected == IF aborts THEN [lane EXCEPT ![l].promise = settle(@, "rejected", rejectionOf(result, written))] ELSE lane
                  s == runNextPromise([Shared EXCEPT !.resultList = written, !.hasAborted = aborts, !.lane = rejected], l, FALSE)
              IN  /\ jobIndex' = s.jobIndex
                  /\ resultList' = s.resultList
                  /\ lane' = s.lane
                  /\ calls' = s.calls
                  /\ hasAborted' = aborts
  /\ UNCHANGED <<promiseList, threadsNumber, abortOnFail, outcome>>

\* lines 44-67: the promise of the job lane l is running settles, and the
\* .catch / .then callbacks run
Settle(l) ==
  /\ lane[l].pc = "running"
  /\ LET idx == lane[l].idx
         kind == promiseList[idx + 1]
         result == IF Rejects(kind) THEN catchWrap(idx, SettledValue(kind, idx)) ELSE SettledValue(kind, idx)
     IN  IF hasAborted = TRUE
         THEN /\ lane' = [lane EXCEPT ![l].pc = "done", ![l].promise = settle(@, "fulfilled", Undef)]
              /\ UNCHANGED <<jobIndex, hasAborted, resultList, calls>>
         ELSE IF isErrorResult(result)
         THEN LET written == writeSlot(resultList, idx, result)
              IN  IF abortsRun(abortOnFail)
                  THEN /\ resultList' = written
                       /\ hasAborted' = TRUE
                       /\ lane' = [lane EXCEPT ![l].pc = "done", ![l].promise = settle(@, "rejected", rejectionOf(result, written))]
                       /\ UNCHANGED <<jobIndex, calls>>
                  ELSE LET s == runNextPromise([Shared EXCEPT !.resultList = written], l, FALSE)
                       IN  /\ jobIndex' = s.jobIndex
                           /\ resultList' = s.resultList
                           /\ lane' = s.lane
                           /\ calls' = s.calls
                           /\ UNCHANGED hasAborted
         ELSE LET written == writeSlot(resultList, idx, successSlot(idx, result))
                  s == runNextPromise([Shared EXCEPT !.resultList = written], l, FALSE)
              IN  /\ jobIndex' = s.jobIndex
                  /\ resultList' = s.resultList
                  /\ lane' = s.lane
                  /\ calls' = s.calls
                  /\ UNCHANGED hasAborted
  /\ UNCHANGED <<promiseList, threadsNumber, abortOnFail, outcome>>

\* line 74: every promise in threads is fulfilled, so Promise.all fulfils
\* and .then(() => resultList) fulfils the returned promise
JoinResolve ==
  /\ outcome.state = "pending"
  /\ \A t \in 1 .. threadsNumber : lane[threads[t]].promise.state = "fulfilled"
  /\ outcome' = [state |-> "fulfilled", value |-> resultList]
  /\ UNCHANGED <<promiseList, threadsNumber, abortOnFail, jobIndex, hasAborted, resultList, lane, calls>>

\* line 74: a promise in threads is rejected, so Promise.all rejects with
\* its reason and the returned promise rejects with the same reason
JoinReject ==
  /\ outcome.state = "pending"
  /\ \E t \in 1 .. threadsNumber :
        /\ lane[threads[t]].promise.state = "rejected"
        /\ outcome' = [state |-> "rejected", value |-> lane[threads[t]].promise.value]
  /\ UNCHANGED <<promiseList, threadsNumber, abortOnFail, jobIndex, hasAborted, resultList, lane, calls>>

Next ==
  \/ Run
  \/ \E l \in Lanes : Settle(l)
  \/ JoinResolve
  \/ JoinReject

Spec == Init /\ [][Next]_vars

\* the call is made, every invoked job's promise settles, and the promise
\* reactions queued by a settlement run
FairSpec == Spec /\ WF_vars(Next)

(* ------------------------- derived quantities ------------------------- *)

Started == outcome.state # "notcreated"

Settled == outcome.state \in {"fulfilled", "rejected"}

\* indices of the jobs that were invoked and whose promise is still pending
InFlight == {lane[l].idx : l \in {x \in Lanes : lane[x].pc = "running"}}

\* indices of the jobs that were invoked
Invoked == {calls[k].index : k \in 1 .. Len(calls)}

\* indices of the jobs whose .then callback has run
Completed == Invoked \ InFlight

\* number of invocations of job i
InvocationCount(i) == Cardinality({k \in 1 .. Len(calls) : calls[k].index = i})

\* no .then callback has run yet
NoneSettled == hasAborted = FALSE /\ \A i \in 1 .. Len(resultList) : resultList[i] = Null

JobFails(i) == Rejects(promiseList[i + 1])

JobValue(i) == SettledValue(promiseList[i + 1], i)

Success(i, data) == Obj([promiseIndex |-> i, data |-> data])

Failure(i, error) == Obj([promiseIndex |-> i, error |-> error])

\* the slot the specification prescribes for job i
SlotOfJob(i) == IF JobFails(i) THEN Failure(i, JobValue(i)) ELSE Success(i, JobValue(i))

HasIndexTag(slot, i) == slot.t = "object" /\ "promiseIndex" \in DOMAIN slot.o /\ slot.o.promiseIndex = i

IsSuccessSlot(slot) == slot.t = "object" /\ "data" \in DOMAIN slot.o

IsFailureSlot(slot) == slot.t = "object" /\ "error" \in DOMAIN slot.o /\ "data" \notin DOMAIN slot.o

RejectedLanes == {l \in Lanes : lane[l].promise.state = "rejected"}

\* the list carried by the settled outcome (<<>> while there is none)
CarriedList == IF outcome.state = "fulfilled" THEN outcome.value ELSE IF outcome.state = "rejected" /\ outcome.value.t = "object" /\ "resultList" \in DOMAIN outcome.value.o THEN outcome.value.o.resultList ELSE <<>>

(* ------------------------------- claims ------------------------------- *)

\* C1: with threadsNumber = N >= 2 and at least N jobs, the call starts N
\* lanes: before any job settles, jobs 0..N-1 have all been invoked and are
\* in flight together.
C1_LanesInFlight == (Started /\ threadsNumber >= 2 /\ totalJobs >= threadsNumber /\ NoneSettled) => InFlight = 0 .. (threadsNumber - 1)

\* C2: index fidelity - in the result list and in the list carried by a
\* resolution or a rejection, every non-Empty slot at position i carries the
\* index tag i and the data or error that job i produced.
C2_IndexFidelity == \A list \in {resultList, CarriedList} : \A p \in 1 .. Len(list) : list[p] # Null => (HasIndexTag(list[p], p - 1) /\ ((IsSuccessSlot(list[p]) /\ list[p].o.data = JobValue(p - 1)) \/ (IsFailureSlot(list[p]) /\ list[p].o.error = JobValue(p - 1))))

\* C3: a resolved run carries a list of length totalJobs without Empty
\* slots, and with abortOnFail = false every slot is Success or Failure
\* according to whether its job succeeded or failed.
C3_ResolvedListFull == outcome.state = "fulfilled" => (Len(outcome.value) = totalJobs /\ \A i \in JobIndices : (outcome.value[i + 1] # Null /\ (abortOnFail = FALSE => (IF JobFails(i) THEN IsFailureSlot(outcome.value[i + 1]) ELSE IsSuccessSlot(outcome.value[i + 1])))))

\* C4: with abortOnFail = false the abort flag stays false, no lane
\* rejects and the returned promise is never rejected.
C4_NeverRejects == abortOnFail = FALSE => (hasAborted = FALSE /\ RejectedLanes = {} /\ outcome.state # "rejected")

C4_Witness == abortOnFail = FALSE /\ outcome.state = "fulfilled" /\ \E i \in JobIndices : (promiseList[i + 1] = "fail" /\ outcome.value[i + 1] = Failure(i, Err(i)))

\* C5: single abort - with abortOnFail = true, once the failure of a job
\* has been handled exactly one lane has rejected, the abort flag is set,
\* and the rejection references a job that failed.
C5_SingleAbort == (abortOnFail = TRUE /\ \E i \in Completed : JobFails(i)) => (hasAborted = TRUE /\ Cardinality(RejectedLanes) = 1 /\ \A l \in RejectedLanes : \E k \in Completed : (JobFails(k) /\ HasIndexTag(lane[l].promise.value, k)))

\* C6 as stated: in every run each index of the job list is passed to
\* exactly one job invocation, none is skipped (stated for the runs whose
\* jobs resolve with a plain value or reject with an error).
C6_EveryIndexOnce == (Settled /\ \A p \in 1 .. totalJobs : promiseList[p] \in {"ok", "fail"}) => \A i \in JobIndices : InvocationCount(i) = 1

\* C6 amended: no index is invoked twice, only indices of the job list are
\* invoked, the invoked indices are the gap-free prefix 0..k-1 in claim
\* order, and a run that resolves has invoked every index exactly once.
C6_NoDuplicateClaims == /\ \A k \in 1 .. Len(calls) : calls[k].index = k - 1
                        /\ Invoked \subseteq JobIndices
                        /\ \A i \in JobIndices : InvocationCount(i) <= 1
                        /\ outcome.state = "fulfilled" => \A i \in JobIndices : InvocationCount(i) = 1

\* a resolved run of several jobs, each invoked once, after a failure was recorded and the lane claimed again
C6_Witness == outcome.state = "fulfilled" /\ totalJobs >= 2 /\ (\E i \in JobIndices : promiseList[i + 1] = "fail") /\ \A i \in JobIndices : InvocationCount(i) = 1

\* C7: a rejection carries the index of the failing job, that job's error
\* and a copy of the result list in which the failing job's slot is
\* Failure, the slots of the jobs completed before it are Success and all
\* other slots are Empty.
C7_RejectionCarries == outcome.state = "rejected" => (outcome.value.t = "object" /\ "promiseIndex" \in DOMAIN outcome.value.o /\ LET k == outcome.value.o.promiseIndex IN (k \in JobIndices /\ JobFails(k) /\ Get(outcome.value, "error") = JobValue(k) /\ Len(CarriedList) = totalJobs /\ \A i \in JobIndices : CarriedList[i + 1] = (IF i = k THEN Failure(k, JobValue(k)) ELSE IF i \in Completed /\ resultList[i + 1] # Null THEN Success(i, JobValue(i)) ELSE Null)))

\* C8: a job that succeeds is recorded as Success{idx, data} with the value
\* it produced, whatever the shape of the value, and a run whose jobs all
\* succeed never sets the abort flag and never rejects.
C8_SuccessRecorded == /\ \A i \in Completed : (~JobFails(i) /\ (hasAborted = FALSE \/ resultList[i + 1] # Null)) => resultList[i + 1] = Success(i, JobValue(i))
                      /\ (\A i \in JobIndices : ~JobFails(i)) => (hasAborted = FALSE /\ RejectedLanes = {} /\ outcome.state # "rejected")

\* C9: a job that fails is recorded as Failure{idx, error} in its own slot,
\* whatever the error value, never as Success, and with abortOnFail = true
\* the recorded failure sets the abort flag and rejects the run.
C9_FailureRecorded == \A i \in Completed : (JobFails(i) /\ (hasAborted = FALSE \/ resultList[i + 1] # Null)) => (resultList[i + 1] = Failure(i, JobValue(i)) /\ (abortOnFail = TRUE => (hasAborted = TRUE /\ RejectedLanes # {})))

\* C10: with an empty job list no job is invoked, the abort flag stays
\* false, every lane has resolved as soon as the call returns, and the run
\* can only resolve, with an empty list.
C10_EmptyInput == totalJobs = 0 => (/\ calls = <<>>
                                    /\ hasAborted = FALSE
                                    /\ Started => \A t \in 1 .. threadsNumber : lane[threads[t]].promise.state = "fulfilled"
                                    /\ outcome.state # "rejected"
                                    /\ outcome.state = "fulfilled" => outcome.value = <<>>)

C10_Witness == totalJobs = 0 /\ outcome.state = "fulfilled" /\ outcome.value = <<>>

(* --------------------- claims C11 - C20: vocabulary -------------------- *)

\* the outcome of running the jobs from index i on, one after the other,
\* on the result list `list`
RECURSIVE SequentialOutcome(_, _)
SequentialOutcome(i, list) ==
  IF i >= totalJobs THEN [state |-> "fulfilled", value |-> list]
  ELSE LET kind == promiseList[i + 1]
           result == IF Rejects(kind) THEN catchWrap(i, SettledValue(kind, i)) ELSE SettledValue(kind, i)
       IN  IF isErrorResult(result)
           THEN IF abortsRun(abortOnFail)
                THEN [state |-> "rejected", value |-> rejectionOf(result, writeSlot(list, i, result))]
                ELSE SequentialOutcome(i + 1, writeSlot(list, i, result))
           ELSE SequentialOutcome(i + 1, writeSlot(list, i, successSlot(i, result)))

EmptyList == [i \in 1 .. totalJobs |-> Null]

\* the thread entries beyond the number of jobs
ExcessThreads == {t \in 1 .. threadsNumber : t > totalJobs}

\* C11 (first half): the settled outcome is determined by the job list and
\* the policy alone, so it is the same for every threadsNumber.
C11_OutcomeIgnoresThreads == Settled => outcome = SequentialOutcome(0, EmptyList)

\* C11: lane saturation - the outcome does not depend on threadsNumber, and
\* the lane behind each thread entry beyond the number of jobs has resolved
\* as soon as the call returns and never runs a job.
C11_LaneSaturation == /\ C11_OutcomeIgnoresThreads
                      /\ Started => \A t \in ExcessThreads : (lane[threads[t]].idx = -1 /\ lane[threads[t]].pc = "done" /\ lane[threads[t]].promise.state = "fulfilled")

\* indices of the jobs that were invoked and have no recorded outcome
Unrecorded == {i \in Invoked : resultList[i + 1] = Null}

\* C12: with threadsNumber = 1 the jobs run strictly one after the other:
\* at most one job is in flight (invoked, nothing recorded yet), and when
\* job i + 1 has been invoked job i has settled and its outcome is in slot
\* i, both in the list and in the copy job i + 1 was given.
C12_Sequential == threadsNumber = 1 => (/\ Cardinality(InFlight) <= 1
                                        /\ Cardinality(Unrecorded) <= 1
                                        /\ \A k \in 1 .. Len(calls) : calls[k].index >= 1 => LET i == calls[k].index - 1 IN (i \in Completed /\ resultList[i + 1] # Null /\ calls[k].arg[i + 1] # Null))

C12_Witness == threadsNumber = 1 /\ Len(calls) >= 2 /\ InFlight = {1} /\ resultList[1] # Null

AllLanesDone == \A l \in Lanes : lane[l].pc = "done"

\* C13: termination - when every invoked job settles, every lane ends and
\* the run settles, as a resolution or a rejection; once settled the
\* outcome never changes, and the run is not resolved while a lane is still
\* claiming or running.
C13_Termination == /\ <>[](Settled /\ AllLanesDone /\ InFlight = {})
                   /\ [](outcome.state = "fulfilled" => (AllLanesDone /\ InFlight = {}))
                   /\ [][Settled => outcome' = outcome]_vars

C13_Witness == Settled /\ AllLanesDone /\ totalJobs >= 2 /\ Len(calls) >= 2

\* C14: once the abort flag is set the result list is never written again,
\* and the step that sets the flag and every step after it invokes no job
\* and claims no index: a lane still running a job only resolves.
C14_NoWorkAfterAbort == [][(hasAborted = TRUE => (resultList' = resultList /\ calls' = calls)) /\ (hasAborted' = TRUE => (calls' = calls /\ jobIndex' = jobIndex))]_vars

C14_Witness == hasAborted = TRUE /\ outcome.state = "rejected" /\ \E i \in JobIndices : (i \notin Invoked /\ resultList[i + 1] = Null /\ CarriedList[i + 1] = Null)

\* C15: write-once slots - every slot is Empty until the call, the list
\* keeps the length totalJobs, a step writes at most one slot, only the
\* slot of a job whose callback has run is non-Empty, and a slot that is
\* not Empty never changes again.
C15_WriteOnce == /\ [](Len(resultList) = totalJobs)
                 /\ [](\A p \in 1 .. Len(resultList) : resultList[p] # Null => (p - 1) \in Completed)
                 /\ [][/\ \A p \in 1 .. Len(resultList) : resultList[p] # Null => resultList'[p] = resultList[p]
                       /\ Cardinality({p \in 1 .. Len(resultList) : resultList'[p] # resultList[p]}) <= 1]_vars

C15_Witness == Len(calls) >= 2 /\ resultList[1] # Null /\ resultList[2] # Null /\ resultList[1] # resultList[2]

\* C16: abort flag discipline - the flag is false until the call, is never
\* reset, and is set only with abortOnFail = true, by a lane whose job
\* failed and that in the same step writes Failure{idx, error} into its own
\* slot and rejects its promise.
C16_AbortFlagDiscipline == [][/\ (~Started) => hasAborted = FALSE
                              /\ hasAborted = TRUE => hasAborted' = TRUE
                              /\ (hasAborted = FALSE /\ hasAborted' = TRUE) => (abortOnFail = TRUE /\ \E l \in Lanes : (lane[l].pc = "running" /\ JobFails(lane[l].idx) /\ resultList[lane[l].idx + 1] = Null /\ resultList'[lane[l].idx + 1] = Failure(lane[l].idx, JobValue(lane[l].idx)) /\ lane[l].promise.state = "pending" /\ lane'[l].promise.state = "rejected"))]_vars

\* C17: job start order follows claim order - the cursor never decreases,
\* the first claim yields index 0, every invocation used a claimed index,
\* and the k-th job invoked is job k - 1, so the invoked jobs are always
\* the prefix 0..k-1 of the job indices, started in increasing order.
C17_StartOrder == /\ [](\A k \in 1 .. Len(calls) : calls[k].index = k - 1)
                  /\ [](Invoked = 0 .. (Len(calls) - 1) /\ Invoked \subseteq 0 .. jobIndex)
                  /\ [][jobIndex' >= jobIndex /\ (jobIndex = -1 /\ calls' # calls => calls'[1].index = 0)]_vars

C17_Witness == Len(calls) >= 3 /\ calls[1].index = 0 /\ calls[3].index = 2 /\ jobIndex >= 2

\* C18: when a run with abortOnFail = true rejects with index k, no job
\* that was started with an index smaller than k has failed: k is the
\* lowest index among the failing jobs that were started.
C18_LowestFailure == (abortOnFail = TRUE /\ outcome.state = "rejected" /\ outcome.value.t = "object" /\ "promiseIndex" \in DOMAIN outcome.value.o) => \A i \in Invoked : JobFails(i) => i >= outcome.value.o.promiseIndex

\* C19: bounded concurrency - the number of jobs invoked and not yet
\* settled never exceeds threadsNumber nor the number of jobs.
C19_BoundedConcurrency == /\ Cardinality(InFlight) <= threadsNumber
                          /\ Cardinality(InFlight) <= totalJobs
                          /\ hasAborted = FALSE => Cardinality(Unrecorded) <= threadsNumber

C19_Witness == Cardinality(InFlight) = 1 /\ threadsNumber >= 2 /\ totalJobs >= 2 /\ Len(calls) >= 2

====
